---- MODULE Spec2Model ----
(***************************************************************************)
(* A model of the SAP (RFC 2974) tools of multicast-sdp-sap:               *)
(*   sap_discovery.py  the listener loop and its sweeper thread            *)
(*   sap_sender.py     the announcer of two fixed sessions                 *)
(*   sender.py         the RTP sender with an integrated announcer         *)
(* Bytes are naturals 0..255, text is a sequence of Unicode code points,   *)
(* time is counted in seconds.                                             *)
(***************************************************************************)
EXTENDS Integers, Sequences, FiniteSets, TLC

VARIABLES
    seen,       \* the dict msg_id -> info, as its items in insertion order
    files,      \* the file system under out_dir: path -> content
    listener,   \* the main thread of sap_discovery.py: position and locals
    sweeper,    \* the sweeper thread: position and locals
    live,       \* history: per id, records created minus unlink calls made
    open,       \* history: per id, a run of Announces that began with the id
                \* absent and has seen no removal of the id since
    runWrites,  \* history: per id, sink writes made during the open run
    codec,      \* the codec round trip: inputs, packet, decoded fields
    announcer,  \* the announcer loop: position, clock, transmissions
    receiver,   \* sap_receiver.py: its dict, its files, its last write
    order       \* history: per id, the T bits of the last two datagrams
                \* of at least 8 bytes received

vars == <<seen, files, listener, sweeper, live, open, runWrites, codec,
          announcer, receiver, order>>

----------------------------------------------------------------------------
(* Program constants.                                                      *)

\* --expire-sec, default=300
expire_sec == 300
\* time.sleep(30) of the sweeper
SweepSleep == 30
\* ANN_MIN, ANN_MAX = 60, 120
ANN_MIN == 60
ANN_MAX == 120
\* for _ in range(3), and the time.sleep(1) in it
StartupCount == 3
StartupSleep == 1
\* --sap-interval, default=20.0
SapIntervalDefault == 20

(* Time is kept as differences: a record holds age = time.time() -         *)
(* info["last_seen"] and the sweeper holds what is left of its sleep. An   *)
(* age past every value the program compares it with stays at AgeCap.      *)
AgeCap == expire_sec + 2 * SweepSleep

\* the clock advances by the expiry time, or by one sweep interval
CoarseStep == expire_sec
FineStep == SweepSleep

----------------------------------------------------------------------------
(* Python text: str.strip, str.splitlines, str.startswith, str.replace,    *)
(* bytes.decode("utf-8", "replace"), f"{int}".                             *)

\* str.isspace: the characters str.strip() removes
IsSpace(c) ==
    c \in {9, 10, 11, 12, 13, 28, 29, 30, 31, 32, 133, 160, 5760, 8232, 8233,
           8239, 8287, 12288} \cup (8192..8202)

\* the line boundaries of str.splitlines()
IsLineBreak(c) == c \in {10, 11, 12, 13, 28, 29, 30, 133, 8232, 8233}

RECURSIVE LStrip(_)
LStrip(s) ==
    IF s # <<>> /\ IsSpace(Head(s)) THEN LStrip(Tail(s)) ELSE s

RECURSIVE RStrip(_)
RStrip(s) ==
    IF s # <<>> /\ IsSpace(s[Len(s)])
    THEN RStrip(SubSeq(s, 1, Len(s) - 1))
    ELSE s

\* str.strip()
Strip(s) == RStrip(LStrip(s))

\* bytes.decode("utf-8", "replace") on bytes that are ASCII or can start no
\* UTF-8 sequence (0x80..0xBF, 0xF8..0xFF): each of the latter decodes to U+FFFD
Utf8DecodeReplace(bs) ==
    [i \in 1..Len(bs) |-> IF bs[i] < 128 THEN bs[i] ELSE 65533]

\* str.splitlines(): one line per line boundary, "\r\n" counting as one, and a
\* last line when text follows the last boundary. The lines of s from index
\* i on, the first one after cur; b is the next line boundary.
RECURSIVE SplitFrom(_, _, _)
SplitFrom(s, i, cur) ==
    IF i > Len(s)
    THEN IF cur = <<>> THEN <<>> ELSE <<cur>>
    ELSE LET breaks == {j \in i..Len(s) : IsLineBreak(s[j])}
         IN  IF breaks = {}
             THEN <<cur \o SubSeq(s, i, Len(s))>>
             ELSE LET b == CHOOSE j \in breaks : \A h \in breaks : j <= h
                      next == IF s[b] = 13 /\ b < Len(s) /\ s[b + 1] = 10
                              THEN b + 2 ELSE b + 1
                  IN  <<cur \o SubSeq(s, i, b - 1)>>
                          \o SplitFrom(s, next, <<>>)

SplitLines(s) == SplitFrom(s, 1, <<>>)

\* str.startswith
StartsWith(s, p) == Len(s) >= Len(p) /\ SubSeq(s, 1, Len(p)) = p

\* str.replace(" ", "_")
ReplaceSpaces(s) == [i \in 1..Len(s) |-> IF s[i] = 32 THEN 95 ELSE s[i]]

\* f"{n}" for an int n >= 0
RECURSIVE Decimal(_)
Decimal(n) ==
    IF n < 10 THEN <<48 + n>> ELSE Append(Decimal(n \div 10), 48 + (n % 10))

\* "s=", "session_", ".sdp", "\n"
TitlePrefix == <<115, 61>>
SessionPrefix == <<115, 101, 115, 115, 105, 111, 110, 95>>
SdpSuffix == <<46, 115, 100, 112>>
Newline == <<10>>

\* A value that is no text: None
None == <<-1>>

\* The truth value of a str | None
Truthy(t) == t # None /\ t # <<>>

\* parse_title: the stripped rest of the first line that starts with "s="
RECURSIVE FirstTitle(_)
FirstTitle(lines) ==
    IF lines = <<>> THEN None
    ELSE IF StartsWith(Head(lines), TitlePrefix)
         THEN Strip(SubSeq(Head(lines), 3, Len(Head(lines))))
         ELSE FirstTitle(Tail(lines))

parse_title(sdp) == FirstTitle(SplitLines(sdp))

----------------------------------------------------------------------------
(* The wire format: struct.pack("!BBH", b0, auth_len, msg_id), the 4-byte   *)
(* originating address, the payload.                                       *)

\* b0 = (V << 5) | (A << 4) | (R << 3) | (T << 2) | (E << 1) | C, each field
\* within its width, so that | adds
HeaderByte(V, A, R, T, E, C) ==
    V * 32 + A * 16 + R * 8 + T * 4 + E * 2 + C

\* mutant of PackBBH: the id little-endian, as "<BBH" packs it
PackBBHLittle(b0, auth_len, msg_id) ==
    <<b0, auth_len, msg_id % 256, msg_id \div 256>>

\* struct.pack("!BBH", b0, auth_len, msg_id): the 16-bit id big-endian
PackBBH(b0, auth_len, msg_id) ==
    <<b0, auth_len, msg_id \div 256, msg_id % 256>>

\* mutant of UnpackBBH: the key takes in the last byte of the address
UnpackBBHWithAddr(pkt) ==
    [b0 |-> pkt[1], auth_len |-> pkt[2],
     msg_id |-> (pkt[3] * 256 + pkt[4] + pkt[8]) % 65536]

\* struct.unpack("!BBH", pkt[:4])
UnpackBBH(pkt) ==
    [b0 |-> pkt[1], auth_len |-> pkt[2], msg_id |-> pkt[3] * 256 + pkt[4]]

\* the header sap_header builds, for a type bit T: V = 1, auth_len = 0, the
\* id, then the address
HeaderFor(msg_id, addr, T) ==
    PackBBH(HeaderByte(1, 0, 0, T, 0, 0), 0, msg_id) \o addr

\* sap_header(sdp_bytes, src_ipv4): T = 0, the id standing for the first two
\* bytes of SHA-1(sdp_bytes) and addr for socket.inet_aton(src_ipv4)
sap_header(msg_id, addr) == HeaderFor(msg_id, addr, 0)

\* pkt = sap_header(sdp, src_ip) + sdp, for a type bit T
Packet(sdp_bytes, msg_id, addr, T) == HeaderFor(msg_id, addr, T) \o sdp_bytes

\* pkt[off:]
SliceFrom(pkt, off) ==
    IF off >= Len(pkt) THEN <<>> ELSE SubSeq(pkt, off + 1, Len(pkt))

\* mutant of TooShort: only the 4 bytes that unpack reads are required
TooShortForUnpack(pkt) == Len(pkt) < 4

\* len(pkt) < 8
TooShort(pkt) == Len(pkt) < 8

\* mutant of DeletionBit: the E bit is read for the T bit
DeletionBitOfE(b0) == (b0 \div 2) % 2

\* (b0 >> 2) & 1
DeletionBit(b0) == (b0 \div 4) % 2

\* off = 4 + 4; off += auth_len * 4
PayloadOffset(auth_len) == 4 + 4 + auth_len * 4

\* sdp = pkt[off:].decode("utf-8", "replace").strip()
DecodeSdp(pkt) ==
    Strip(Utf8DecodeReplace(SliceFrom(pkt, PayloadOffset(UnpackBBH(pkt).auth_len))))

----------------------------------------------------------------------------
(* The dict seen, as the sequence of its items in insertion order.         *)

Keys(d) == {d[i].mid : i \in 1..Len(d)}

\* k in d
Has(d, k) == k \in Keys(d)

\* d[k]
Get(d, k) == d[CHOOSE i \in 1..Len(d) : d[i].mid = k].info

\* d[k] = v: an existing key keeps its place, a new one goes last
SetItem(d, k, v) ==
    IF Has(d, k)
    THEN [i \in 1..Len(d) |-> IF d[i].mid = k THEN [mid |-> k, info |-> v] ELSE d[i]]
    ELSE Append(d, [mid |-> k, info |-> v])

\* the value of d.pop(k, None): <<>> for None, <<info>> for a dict
PopValue(d, k) == IF Has(d, k) THEN <<Get(d, k)>> ELSE <<>>

RECURSIVE Without(_, _)
Without(d, k) ==
    IF d = <<>> THEN <<>>
    ELSE IF Head(d).mid = k THEN Without(Tail(d), k)
         ELSE <<Head(d)>> \o Without(Tail(d), k)

\* mutant of PopDict: the record is read and left in the dict
PopDictKeeps(d, k) == d

\* the dict after d.pop(k, None)
PopDict(d, k) == Without(d, k)

\* mutant of Found: the value of the pop is not tested
FoundAlways(info) == TRUE

\* "if info:" on the value of a pop
Found(info) == info # <<>>

----------------------------------------------------------------------------
(* The datagrams the network delivers to the listener.                     *)

\* 192.0.2.10 and 192.0.2.11
AddrA == <<192, 0, 2, 10>>
AddrB == <<192, 0, 2, 11>>

\* 0x1234 and 0x0201
IdA == 18 * 256 + 52
IdB == 2 * 256 + 1

\* "s=A\n" and "v=0\ns=B"
SdpTitleA == <<115, 61, 65, 10>>
SdpTitleB == <<118, 61, 48, 10, 115, 61, 66>>

\* a Delete: the header of the announcer with the T bit set
DeleteHeader(msg_id, addr) == HeaderFor(msg_id, addr, 1)

Datagrams ==
    { \* auth_len = 1, one authentication word, then the document
      PackBBH(HeaderByte(1, 0, 0, 0, 0, 0), 1, IdA) \o AddrA
          \o <<0, 0, 0, 0>> \o SdpTitleA,
      \* the same id from another address, with another title
      sap_header(IdA, AddrB) \o SdpTitleB,
      DeleteHeader(IdA, AddrA),
      \* five bytes
      <<32, 0, 18, 52, 0>>,
      \* auth_len = 1 and nothing after the fixed header
      PackBBH(HeaderByte(1, 0, 0, 0, 0, 0), 1, IdB) \o AddrB }

\* SDPS[0] and SDPS[1] of sap_sender.py, and make_sdp of sender.py for
\* --name "Camera 1" --group 239.255.0.42 --port 5006 on the host 192.0.2.2
SdpFeedA ==
    <<118, 61, 48, 10, 111, 61, 115, 101, 110, 100, 101, 114, 65, 32, 49,
      32, 49, 32, 73, 78, 32, 73, 80, 52, 32, 49, 57, 50, 46, 48, 46, 50,
      46, 49, 48, 10, 115, 61, 70, 101, 101, 100, 32, 65, 32, 45, 32, 66,
      97, 108, 108, 10, 105, 61, 72, 46, 50, 54, 52, 32, 82, 84, 80, 10,
      116, 61, 48, 32, 48, 10, 99, 61, 73, 78, 32, 73, 80, 52, 32, 50, 51,
      57, 46, 50, 53, 53, 46, 48, 46, 49, 48, 47, 51, 50, 10, 109, 61,
      118, 105, 100, 101, 111, 32, 53, 48, 48, 52, 32, 82, 84, 80, 47, 65,
      86, 80, 32, 57, 54, 10, 97, 61, 114, 116, 112, 109, 97, 112, 58, 57,
      54, 32, 72, 50, 54, 52, 47, 57, 48, 48, 48, 48, 10, 97, 61, 102,
      109, 116, 112, 58, 57, 54, 32, 112, 97, 99, 107, 101, 116, 105, 122,
      97, 116, 105, 111, 110, 45, 109, 111, 100, 101, 61, 49, 59, 112,
      114, 111, 102, 105, 108, 101, 45, 108, 101, 118, 101, 108, 45, 105,
      100, 61, 52, 50, 101, 48, 49, 102, 10>>

SdpFeedB ==
    <<118, 61, 48, 10, 111, 61, 115, 101, 110, 100, 101, 114, 66, 32, 49,
      32, 49, 32, 73, 78, 32, 73, 80, 52, 32, 49, 57, 50, 46, 48, 46, 50,
      46, 49, 49, 10, 115, 61, 70, 101, 101, 100, 32, 66, 32, 45, 32, 83,
      77, 80, 84, 69, 10, 105, 61, 72, 46, 50, 54, 52, 32, 82, 84, 80, 10,
      116, 61, 48, 32, 48, 10, 99, 61, 73, 78, 32, 73, 80, 52, 32, 50, 51,
      57, 46, 50, 53, 53, 46, 48, 46, 49, 49, 47, 51, 50, 10, 109, 61,
      118, 105, 100, 101, 111, 32, 53, 48, 48, 52, 32, 82, 84, 80, 47, 65,
      86, 80, 32, 57, 54, 10, 97, 61, 114, 116, 112, 109, 97, 112, 58, 57,
      54, 32, 72, 50, 54, 52, 47, 57, 48, 48, 48, 48, 10, 97, 61, 102,
      109, 116, 112, 58, 57, 54, 32, 112, 97, 99, 107, 101, 116, 105, 122,
      97, 116, 105, 111, 110, 45, 109, 111, 100, 101, 61, 49, 59, 112,
      114, 111, 102, 105, 108, 101, 45, 108, 101, 118, 101, 108, 45, 105,
      100, 61, 52, 50, 101, 48, 49, 102, 10>>

SdpCamera ==
    <<118, 61, 48, 10, 111, 61, 115, 101, 110, 100, 101, 114, 32, 49, 32,
      49, 32, 73, 78, 32, 73, 80, 52, 32, 49, 57, 50, 46, 48, 46, 50, 46,
      50, 10, 115, 61, 67, 97, 109, 101, 114, 97, 32, 49, 10, 105, 61, 72,
      50, 54, 52, 32, 82, 84, 80, 10, 116, 61, 48, 32, 48, 10, 99, 61, 73,
      78, 32, 73, 80, 52, 32, 50, 51, 57, 46, 50, 53, 53, 46, 48, 46, 52,
      50, 47, 49, 10, 109, 61, 118, 105, 100, 101, 111, 32, 53, 48, 48,
      54, 32, 82, 84, 80, 47, 65, 86, 80, 32, 57, 54, 10, 97, 61, 114,
      116, 112, 109, 97, 112, 58, 57, 54, 32, 72, 50, 54, 52, 47, 57, 48,
      48, 48, 48, 10, 97, 61, 102, 109, 116, 112, 58, 57, 54, 32, 112, 97,
      99, 107, 101, 116, 105, 122, 97, 116, 105, 111, 110, 45, 109, 111,
      100, 101, 61, 49, 59, 112, 114, 111, 102, 105, 108, 101, 45, 108,
      101, 118, 101, 108, 45, 105, 100, 61, 52, 50, 101, 48, 49, 102, 10>>

\* int.from_bytes(hashlib.sha1(sdp_bytes).digest()[:2], "big"): the digests
\* of the three documents begin 8e c4, 70 57 and 63 51
IdFeedA == 142 * 256 + 196
IdFeedB == 112 * 256 + 87
IdCamera == 99 * 256 + 81

Sha1Prefix(sdp_bytes) ==
    CASE sdp_bytes = SdpFeedA -> IdFeedA
      [] sdp_bytes = SdpFeedB -> IdFeedB
      [] sdp_bytes = SdpCamera -> IdCamera

\* src_ipv4: "0.0.0.0" by default in sap_sender.py, default_outbound_ip() in
\* sender.py
AddrAny == <<0, 0, 0, 0>>
AddrHost == <<192, 0, 2, 2>>

\* the document of the session k
SessionSdp(prog, k) ==
    IF prog = "sap_sender" THEN <<SdpFeedA, SdpFeedB>>[k] ELSE SdpCamera

SessionAddr(prog) == IF prog = "sap_sender" THEN AddrAny ELSE AddrHost

\* pkts[k] = sap_header(sdp) + sdp; pkt = sap_header(sdp, src_ip) + sdp
SessionPacket(prog, k) ==
    sap_header(Sha1Prefix(SessionSdp(prog, k)), SessionAddr(prog))
        \o SessionSdp(prog, k)

\* the ids on the wire
Ids == {IdA, IdB, IdFeedA, IdFeedB, IdCamera}

----------------------------------------------------------------------------
(* sap_discovery.py                                                        *)

\* the locals of the loop body between two datagrams
Idle ==
    [pc |-> "recv", pkt |-> <<>>, msg_id |-> 0, deletion |-> 0, sdp |-> <<>>,
     title |-> <<>>, fpath |-> <<>>, first_time |-> FALSE, info |-> <<>>]

\* the locals of the sweeper during time.sleep
\* ages and age are history: the age the scan read for each id of to_delete,
\* and for mid
Asleep(left) ==
    [pc |-> "sleep", to_delete |-> <<>>, ages |-> <<>>, mid |-> 0, age |-> 0,
     info |-> <<>>, left |-> left]

\* out_dir / fname with the default --output-dir "."
PathIn(fname) == fname

\* title = parse_title(sdp) or f"session_{msg_id}"
TitleOf(sdp, msg_id) ==
    IF Truthy(parse_title(sdp)) THEN parse_title(sdp)
    ELSE SessionPrefix \o Decimal(msg_id)

\* fname = title.replace(" ", "_") + ".sdp"
FileName(title) == ReplaceSpaces(title) \o SdpSuffix

\* mutant of FirstTime: every Announce counts as the first
FirstTimeAlways(d, msg_id) == TRUE

\* first_time = msg_id not in seen
FirstTime(d, msg_id) == ~Has(d, msg_id)

\* the dict stored under msg_id; "last_seen": time.time() is age 0
Info(title, fpath, sdp) ==
    [title |-> title, path |-> fpath, age |-> 0, sdp |-> sdp]

\* seen[msg_id] = {...}
StoreInfo(d, msg_id, title, fpath, sdp) ==
    SetItem(d, msg_id, Info(title, fpath, sdp))

\* mutant of Expired: >= for >
ExpiredAtLimit(info) == info.age >= expire_sec

\* mutant of Expired: one sweep interval too late
ExpiredLate(info) == info.age > expire_sec + SweepSleep

\* now - info["last_seen"] > args.expire_sec
Expired(info) == info.age > expire_sec

\* Path(p).unlink(missing_ok=True); ok = FALSE: it raises, and the file stays
Unlink(fs, p, ok) ==
    IF ok /\ p \in DOMAIN fs
    THEN [q \in DOMAIN fs \ {p} |-> fs[q]]
    ELSE fs

\* open(p, "w") and f.write(content): create or overwrite
WriteFile(fs, p, content) ==
    [q \in DOMAIN fs \cup {p} |-> IF q = p THEN content ELSE fs[q]]

\* no file: a function of empty domain
NoFiles == [q \in {} |-> <<>>]

Zero == [i \in Ids |-> 0]

DiscoveryInit ==
    /\ seen = <<>>
    /\ files = NoFiles
    /\ listener = Idle
    /\ sweeper = Asleep(0)
    /\ live = Zero
    /\ open = [i \in Ids |-> FALSE]
    /\ runWrites = Zero

\* line 58: pkt, _ = s.recvfrom(65535), a datagram of D arriving
Recv(D) ==
    /\ listener.pc = "recv"
    /\ \E pkt \in D :
          listener' = [Idle EXCEPT !.pc = "len", !.pkt = pkt]
    /\ UNCHANGED <<seen, files, sweeper, live, open, runWrites>>

\* lines 59-66: the length test and the decoding
Decode ==
    /\ listener.pc = "len"
    /\ IF TooShort(listener.pkt)
       THEN listener' = [listener EXCEPT !.pc = "drop"]
       ELSE LET h == UnpackBBH(listener.pkt)
            IN  listener' = [listener EXCEPT
                    !.pc = "dispatch",
                    !.msg_id = h.msg_id,
                    !.deletion = DeletionBit(h.b0),
                    !.sdp = DecodeSdp(listener.pkt)]
    /\ UNCHANGED <<seen, files, sweeper, live, open, runWrites>>

\* lines 68-70 and 76-78: a Delete pops the record
Delete ==
    /\ listener.pc = "dispatch"
    /\ listener.deletion = 1
    /\ LET info == PopValue(seen, listener.msg_id)
       IN  /\ seen' = PopDict(seen, listener.msg_id)
           /\ IF Found(info)
              THEN /\ listener' = [listener EXCEPT !.pc = "unlink", !.info = info]
                   /\ open' = [open EXCEPT ![listener.msg_id] = FALSE]
                   /\ runWrites' = [runWrites EXCEPT ![listener.msg_id] = 0]
              ELSE /\ listener' = [listener EXCEPT !.pc = "absent"]
                   /\ UNCHANGED <<open, runWrites>>
    /\ UNCHANGED <<files, sweeper, live>>

\* line 60, and lines 77-78 for a Delete that found no record: continue
Continue ==
    /\ listener.pc \in {"drop", "absent"}
    /\ listener' = Idle
    /\ UNCHANGED <<seen, files, sweeper, live, open, runWrites>>

\* mutant of Passes: no except clause, an error of unlink goes up
PassesWithoutError(ok) == ok

\* try: ... unlink ... except Exception: pass; control reaches what follows
\* whether unlink raised (ok = FALSE) or not
Passes(ok) == TRUE

\* lines 71-75 and 78: the file of the popped record is unlinked
DeleteUnlink ==
    /\ listener.pc = "unlink"
    /\ \E ok \in BOOLEAN :
          /\ files' = Unlink(files, listener.info[1].path, ok)
          /\ listener' = IF Passes(ok) THEN Idle
                         ELSE [listener EXCEPT !.pc = "crashed"]
    /\ live' = [live EXCEPT ![listener.msg_id] = @ - 1]
    /\ UNCHANGED <<seen, sweeper, open, runWrites>>

\* lines 80-84: title, file name, path and the membership test
Announce ==
    /\ listener.pc = "dispatch"
    /\ listener.deletion = 0
    /\ LET title == TitleOf(listener.sdp, listener.msg_id)
       IN  /\ listener' = [listener EXCEPT
                  !.pc = "store",
                  !.title = title,
                  !.fpath = PathIn(FileName(title)),
                  !.first_time = FirstTime(seen, listener.msg_id)]
           /\ IF ~Has(seen, listener.msg_id)
              THEN /\ open' = [open EXCEPT ![listener.msg_id] = TRUE]
                   /\ runWrites' = [runWrites EXCEPT ![listener.msg_id] = 0]
              ELSE UNCHANGED <<open, runWrites>>
    /\ UNCHANGED <<seen, files, sweeper, live>>

\* lines 85-92: the record is stored
Store ==
    /\ listener.pc = "store"
    /\ seen' = StoreInfo(seen, listener.msg_id, listener.title, listener.fpath,
                         listener.sdp)
    /\ live' = IF Has(seen, listener.msg_id) THEN live
               ELSE [live EXCEPT ![listener.msg_id] = @ + 1]
    /\ listener' = IF listener.first_time
                   THEN [listener EXCEPT !.pc = "write"]
                   ELSE Idle
    /\ UNCHANGED <<files, sweeper, open, runWrites>>

\* lines 93-95: the document is written; ok = FALSE: open() or write() raises,
\* nothing catches it and the process ends
Write ==
    /\ listener.pc = "write"
    /\ \E ok \in BOOLEAN :
          IF ok
          THEN /\ files' = WriteFile(files, listener.fpath, listener.sdp \o Newline)
               /\ listener' = Idle
          ELSE /\ files' = files
               /\ listener' = [listener EXCEPT !.pc = "crashed"]
    /\ runWrites' = [runWrites EXCEPT ![listener.msg_id] =
                        IF open[listener.msg_id] THEN @ + 1 ELSE @]
    /\ UNCHANGED <<seen, sweeper, live, open>>

\* the main thread is alive: the sweeper is a daemon thread and ends with it
Running == listener.pc # "crashed"

\* to_delete of lines 41-44, over the snapshot list(seen.items())
RECURSIVE ToDelete(_)
ToDelete(items) ==
    IF items = <<>> THEN <<>>
    ELSE IF Expired(Head(items).info)
         THEN <<Head(items).mid>> \o ToDelete(Tail(items))
         ELSE ToDelete(Tail(items))

\* history: now - info["last_seen"] as the scan read it, for each id of mids
AgesAtScan(items, mids) ==
    [i \in 1..Len(mids) |-> Get(items, mids[i]).age]

\* lines 40-44, once time.sleep(30) has returned (at once when the thread starts)
Scan ==
    /\ Running
    /\ sweeper.pc = "sleep"
    /\ sweeper.left = 0
    /\ sweeper' = [sweeper EXCEPT
           !.pc = "pop", !.to_delete = ToDelete(seen),
           !.ages = AgesAtScan(seen, ToDelete(seen))]
    /\ UNCHANGED <<seen, files, listener, live, open, runWrites>>

\* lines 45-47: info = seen.pop(mid, None)
Pop ==
    /\ Running
    /\ sweeper.pc = "pop"
    /\ sweeper.to_delete # <<>>
    /\ LET mid == Head(sweeper.to_delete)
           info == PopValue(seen, mid)
       IN  /\ seen' = PopDict(seen, mid)
           /\ sweeper' = [sweeper EXCEPT
                  !.to_delete = Tail(@),
                  !.ages = Tail(@),
                  !.mid = mid,
                  !.age = Head(sweeper.ages),
                  !.info = info,
                  !.pc = IF Found(info) THEN "unlink" ELSE "pop"]
           /\ IF Found(info)
              THEN /\ open' = [open EXCEPT ![mid] = FALSE]
                   /\ runWrites' = [runWrites EXCEPT ![mid] = 0]
              ELSE UNCHANGED <<open, runWrites>>
    /\ UNCHANGED <<files, listener, live>>

\* lines 48-52: the file of the expired record is unlinked
SweepUnlink ==
    /\ Running
    /\ sweeper.pc = "unlink"
    /\ \E ok \in BOOLEAN :
          /\ files' = Unlink(files, sweeper.info[1].path, ok)
          /\ sweeper' = IF Passes(ok)
                        THEN [sweeper EXCEPT !.pc = "pop", !.info = <<>>]
                        ELSE [sweeper EXCEPT !.pc = "ended"]
    /\ live' = [live EXCEPT ![sweeper.mid] = @ - 1]
    /\ UNCHANGED <<seen, listener, open, runWrites>>

\* line 53: time.sleep(30)
Sleep ==
    /\ Running
    /\ sweeper.pc = "pop"
    /\ sweeper.to_delete = <<>>
    /\ sweeper' = Asleep(SweepSleep)
    /\ UNCHANGED <<seen, files, listener, live, open, runWrites>>

Min(a, b) == IF a < b THEN a ELSE b
Max(a, b) == IF a > b THEN a ELSE b

\* every record is older by d seconds
Older(d, by) ==
    [i \in 1..Len(d) |->
        [d[i] EXCEPT !.info.age = Min(AgeCap, @ + by)]]

\* d seconds pass
Tick(by) ==
    /\ Running
    /\ seen' = Older(seen, by)
    /\ sweeper' = [sweeper EXCEPT !.left = Max(0, @ - by)]
    /\ <<seen', sweeper'>> # <<seen, sweeper>>
    /\ UNCHANGED <<files, listener, live, open, runWrites>>

----------------------------------------------------------------------------
(* The other programs rest while sap_discovery.py runs.                    *)

CodecIdle == [pc |-> "off"]
AnnouncerIdle == [pc |-> "off"]
ReceiverIdle == [pc |-> "off"]
NoOrder == [i \in Ids |-> <<>>]

DiscoveryIdle ==
    /\ DiscoveryInit
    /\ announcer = AnnouncerIdle
    /\ receiver = ReceiverIdle
    /\ order = NoOrder

DiscoveryRests ==
    UNCHANGED <<seen, files, listener, sweeper, live, open, runWrites>>

Init ==
    /\ DiscoveryIdle
    /\ codec = CodecIdle

Next ==
    \/ Recv(Datagrams) /\ UNCHANGED <<codec, announcer, receiver, order>>
    \/ Decode /\ UNCHANGED <<codec, announcer, receiver, order>>
    \/ Continue /\ UNCHANGED <<codec, announcer, receiver, order>>
    \/ Delete /\ UNCHANGED <<codec, announcer, receiver, order>>
    \/ DeleteUnlink /\ UNCHANGED <<codec, announcer, receiver, order>>
    \/ Announce /\ UNCHANGED <<codec, announcer, receiver, order>>
    \/ Store /\ UNCHANGED <<codec, announcer, receiver, order>>
    \/ Write /\ UNCHANGED <<codec, announcer, receiver, order>>
    \/ Scan /\ UNCHANGED <<codec, announcer, receiver, order>>
    \/ Pop /\ UNCHANGED <<codec, announcer, receiver, order>>
    \/ SweepUnlink /\ UNCHANGED <<codec, announcer, receiver, order>>
    \/ Sleep /\ UNCHANGED <<codec, announcer, receiver, order>>
    \/ Tick(CoarseStep) /\ UNCHANGED <<codec, announcer, receiver, order>>

Spec == Init /\ [][Next]_vars

(* The same program on a clock of one sweep interval, where the sweeper    *)
(* wakes when its sleep is over and a sweep takes no time: time passes     *)
(* only while the sweeper sleeps.                                          *)
\* the datagrams of one session
TimedDatagrams ==
    {p \in Datagrams : ~TooShort(p) /\ UnpackBBH(p).msg_id = IdA}

TimedTick ==
    /\ sweeper.pc = "sleep"
    /\ sweeper.left > 0
    /\ Tick(FineStep)

TimedNext ==
    \/ Recv(TimedDatagrams) /\ UNCHANGED <<codec, announcer, receiver, order>>
    \/ Decode /\ UNCHANGED <<codec, announcer, receiver, order>>
    \/ Continue /\ UNCHANGED <<codec, announcer, receiver, order>>
    \/ Delete /\ UNCHANGED <<codec, announcer, receiver, order>>
    \/ DeleteUnlink /\ UNCHANGED <<codec, announcer, receiver, order>>
    \/ Announce /\ UNCHANGED <<codec, announcer, receiver, order>>
    \/ Store /\ UNCHANGED <<codec, announcer, receiver, order>>
    \/ Write /\ UNCHANGED <<codec, announcer, receiver, order>>
    \/ Scan /\ UNCHANGED <<codec, announcer, receiver, order>>
    \/ Pop /\ UNCHANGED <<codec, announcer, receiver, order>>
    \/ SweepUnlink /\ UNCHANGED <<codec, announcer, receiver, order>>
    \/ Sleep /\ UNCHANGED <<codec, announcer, receiver, order>>
    \/ TimedTick /\ UNCHANGED <<codec, announcer, receiver, order>>

TimedSpec == Init /\ [][TimedNext]_vars

\* The sweeper thread is scheduled whenever it can run, and time goes on.
SweeperRuns ==
    /\ Scan \/ Pop \/ SweepUnlink \/ Sleep
    /\ UNCHANGED <<codec, announcer, receiver, order>>

TimeGoesOn == TimedTick /\ UNCHANGED <<codec, announcer, receiver, order>>

FairTimedSpec ==
    TimedSpec /\ WF_vars(SweeperRuns) /\ WF_vars(TimeGoesOn)

----------------------------------------------------------------------------
(* The codec round trip: a packet built as the announcers build it, decoded *)
(* as the listener decodes it.                                             *)

\* the longest payload
MaxPayload == 3

\* payload bytes: space, line feed, "A", and 0xFF, which is in no UTF-8 text
PayloadBytes == {32, 10, 65, 255}

RECURSIVE SeqsUpTo(_, _)
SeqsUpTo(S, n) ==
    IF n = 0 THEN {<<>>}
    ELSE LET shorter == SeqsUpTo(S, n - 1)
         IN  shorter \cup {Append(q, x) : q \in {r \in shorter : Len(r) = n - 1},
                                          x \in S}

Payloads == SeqsUpTo(PayloadBytes, MaxPayload)

\* 16-bit ids, among them 0x0001 and 0x0100
MsgIds == {0, 1, 256, IdA, 65535}

CodecInit ==
    /\ DiscoveryIdle
    /\ \E p \in Payloads, m \in MsgIds, a \in {AddrA, AddrB}, t \in {0, 1} :
          codec = [pc |-> "encode", p |-> p, m |-> m, a |-> a, t |-> t,
                   pkt |-> <<>>, out |-> <<>>]

\* sender.py line 105, sap_sender.py line 46
Encode ==
    /\ codec.pc = "encode"
    /\ codec' = [codec EXCEPT
           !.pc = "decode",
           !.pkt = Packet(codec.p, codec.m, codec.a, codec.t)]
    /\ DiscoveryRests /\ UNCHANGED <<announcer, receiver, order>>

\* sap_discovery.py lines 59-66
DecodePacket ==
    /\ codec.pc = "decode"
    /\ ~TooShort(codec.pkt)
    /\ LET h == UnpackBBH(codec.pkt)
       IN  codec' = [codec EXCEPT
               !.pc = "done",
               !.out = <<[msg_id |-> h.msg_id,
                          deletion |-> DeletionBit(h.b0),
                          sdp |-> DecodeSdp(codec.pkt)]>>]
    /\ DiscoveryRests /\ UNCHANGED <<announcer, receiver, order>>

CodecNext == Encode \/ DecodePacket

CodecSpec == CodecInit /\ [][CodecNext]_vars

----------------------------------------------------------------------------
(* The announcers: main of sap_sender.py and send_sap_loop of sender.py.   *)
(* sendto takes no time and time.sleep(d) takes d seconds. For each        *)
(* session, n counts its transmissions, since is the time since the last   *)
(* one and gap the time between the last two.                              *)

\* transmissions of one session in one behaviour
MaxTx == 6

\* len(pkts): the two SDPS of sap_sender.py, the one sdp of sender.py
Sessions(prog) == IF prog = "sap_sender" THEN 2 ELSE 1

\* the values of --sap-interval taken: the default, and the startup interval
SapIntervals == {StartupSleep, SapIntervalDefault}

\* mutant of LoopSleeps: the loop sleeps past the expiry time of the listener
LoopSleepsPastExpiry(prog, interval) == {expire_sec + SweepSleep}

\* mutant of LoopSleeps: the loop sleeps as the startup burst does
LoopSleepsAsStartup(prog, interval) == {StartupSleep}

\* the argument of time.sleep in the while loop: random.uniform(ANN_MIN,
\* ANN_MAX) in sap_sender.py, taken at whole seconds; interval in sender.py
LoopSleeps(prog, interval) ==
    IF prog = "sap_sender" THEN ANN_MIN..ANN_MAX ELSE {interval}

\* for _ in range(3) is over after i rounds
RangeDone(i) == i >= StartupCount

\* deletes counts, for each session, the packets sent with the T bit set;
\* wait is what is left of a time.sleep that other programs live through
AnnouncerStart(prog, interval) ==
    [prog |-> prog, interval |-> interval, pc |-> "burst", i |-> 0, k |-> 1,
     wait |-> 0,
     deletes |-> [s \in 1..Sessions(prog) |-> 0],
     n |-> [s \in 1..Sessions(prog) |-> 0],
     since |-> [s \in 1..Sessions(prog) |-> 0],
     gap |-> [s \in 1..Sessions(prog) |-> 0]]

AnnouncerInit ==
    /\ DiscoveryInit
    /\ codec = CodecIdle
    /\ receiver = ReceiverIdle
    /\ order = NoOrder
    /\ \/ announcer = AnnouncerStart("sap_sender", 0)
       \/ \E interval \in SapIntervals :
             announcer = AnnouncerStart("sender", interval)

\* s.sendto(p, (SAP_GRP, SAP_PORT)) for the session k
Sent(a) ==
    [a EXCEPT !.n[a.k] = @ + 1,
              !.deletes[a.k] =
                  @ + DeletionBit(UnpackBBH(SessionPacket(a.prog, a.k)).b0),
              !.gap[a.k] = a.since[a.k],
              !.since[a.k] = 0,
              !.k = @ + 1]

\* time.sleep(d)
Slept(a, d) ==
    [a EXCEPT !.since = [s \in DOMAIN a.since |-> a.since[s] + d], !.k = 1]

\* sap_sender.py lines 49-50, sender.py line 109
BurstSend ==
    /\ announcer.pc = "burst"
    /\ announcer.k <= Sessions(announcer.prog)
    /\ announcer.n[announcer.k] < MaxTx
    /\ announcer' = Sent(announcer)
    /\ DiscoveryRests /\ UNCHANGED <<codec, receiver, order>>

\* sap_sender.py line 51, sender.py line 110, and the end of the for loop
BurstSleep ==
    /\ announcer.pc = "burst"
    /\ announcer.k > Sessions(announcer.prog)
    /\ announcer' = [Slept(announcer, StartupSleep) EXCEPT
           !.i = @ + 1,
           !.pc = IF RangeDone(announcer.i + 1) THEN "loop" ELSE "burst"]
    /\ DiscoveryRests /\ UNCHANGED <<codec, receiver, order>>

\* sap_sender.py lines 54-55, sender.py line 113
LoopSend ==
    /\ announcer.pc = "loop"
    /\ announcer.k <= Sessions(announcer.prog)
    /\ announcer.n[announcer.k] < MaxTx
    /\ announcer' = Sent(announcer)
    /\ DiscoveryRests /\ UNCHANGED <<codec, receiver, order>>

\* sap_sender.py line 56, sender.py line 114
LoopSleep ==
    /\ announcer.pc = "loop"
    /\ announcer.k > Sessions(announcer.prog)
    /\ \E d \in LoopSleeps(announcer.prog, announcer.interval) :
          announcer' = Slept(announcer, d)
    /\ DiscoveryRests /\ UNCHANGED <<codec, receiver, order>>

\* sender.py lines 150-166: SIGINT or SIGTERM runs shutdown, which ends the
\* pipeline and calls sys.exit(0); the finally clause runs shutdown once more
\* and the process exits. sap_sender.py installs no handler and ends at the
\* signal. Neither sends anything on the way out.
Shutdown ==
    /\ announcer.pc \in {"burst", "loop"}
    /\ announcer' = [announcer EXCEPT !.pc = "exited"]
    /\ DiscoveryRests /\ UNCHANGED <<codec, receiver, order>>

AnnouncerNext ==
    BurstSend \/ BurstSleep \/ LoopSend \/ LoopSleep \/ Shutdown

AnnouncerSpec == AnnouncerInit /\ [][AnnouncerNext]_vars

----------------------------------------------------------------------------
(* sap_receiver.py, and the two receivers on the same datagrams. No time   *)
(* passes, so the sweeper of sap_discovery.py finds no record to evict,    *)
(* and both programs run where their files can be written.                 *)

\* sap_receiver.py lines 12-14; wrote is the open() and write() made for the
\* last datagram, if any
ReceiverStart ==
    [pc |-> "recv", seen |-> <<>>, files |-> NoFiles, wrote |-> <<>>]

\* mutant of ReceiverFileName: without a title the name is the bare id, as in
\* the message of line 40
ReceiverFileNameBareId(sdp, msg_id) ==
    LET title == FirstTitle(SplitLines(sdp))
    IN  ReplaceSpaces(IF Truthy(title) THEN title ELSE Decimal(msg_id))
            \o SdpSuffix

\* sap_receiver.py lines 32-37
ReceiverFileName(sdp, msg_id) ==
    LET title == FirstTitle(SplitLines(sdp))
    IN  ReplaceSpaces(IF Truthy(title) THEN title
                      ELSE SessionPrefix \o Decimal(msg_id)) \o SdpSuffix

\* sap_receiver.py lines 16-40: the loop body for the datagram pkt
ReceiverHandle(r, pkt) ==
    IF TooShort(pkt) THEN [r EXCEPT !.wrote = <<>>]
    ELSE LET msg_id == UnpackBBH(pkt).msg_id
             deletion == DeletionBit(UnpackBBH(pkt).b0)
             sdp == DecodeSdp(pkt)
             fname == ReceiverFileName(sdp, msg_id)
         IN  IF deletion = 1
             THEN [r EXCEPT !.seen = PopDict(@, msg_id), !.wrote = <<>>]
             ELSE IF ~Has(r.seen, msg_id)
                  THEN [r EXCEPT
                           !.seen = SetItem(@, msg_id, sdp),
                           !.files = WriteFile(@, fname, sdp \o Newline),
                           !.wrote = <<[path |-> fname,
                                        content |-> sdp \o Newline]>>]
                  ELSE [r EXCEPT !.wrote = <<>>]

\* the same id from another address: a Delete, and an Announce of IdB with
\* the title of IdA
PairDatagrams ==
    Datagrams \cup {DeleteHeader(IdA, AddrB), sap_header(IdB, AddrB) \o SdpTitleA}

\* bytes 2-3 and bit 2 of byte 0, as they are on the wire
WireId(pkt) == pkt[3] * 256 + pkt[4]
WireT(pkt) == (pkt[1] \div 4) % 2

\* history: the T bits of the last two datagrams of the id of pkt
Ordered(o, pkt) ==
    IF Len(pkt) < 8 THEN o
    ELSE [o EXCEPT ![WireId(pkt)] =
             IF Len(@) < 2 THEN Append(@, WireT(pkt))
             ELSE <<@[2], WireT(pkt)>>]

PairInit ==
    /\ DiscoveryInit
    /\ codec = CodecIdle
    /\ announcer = AnnouncerIdle
    /\ receiver = ReceiverStart
    /\ order = NoOrder

\* a datagram reaches both programs
RecvBoth ==
    /\ Recv(PairDatagrams)
    /\ receiver' = ReceiverHandle(receiver, listener'.pkt)
    /\ order' = Ordered(order, listener'.pkt)
    /\ UNCHANGED <<codec, announcer>>

\* sap_discovery.py lines 93-95, where open() and write() succeed
WriteOk == Write /\ listener'.pc = "recv"

PairNext ==
    \/ RecvBoth
    \/ Decode /\ UNCHANGED <<codec, announcer, receiver, order>>
    \/ Continue /\ UNCHANGED <<codec, announcer, receiver, order>>
    \/ Delete /\ UNCHANGED <<codec, announcer, receiver, order>>
    \/ DeleteUnlink /\ UNCHANGED <<codec, announcer, receiver, order>>
    \/ Announce /\ UNCHANGED <<codec, announcer, receiver, order>>
    \/ Store /\ UNCHANGED <<codec, announcer, receiver, order>>
    \/ WriteOk /\ UNCHANGED <<codec, announcer, receiver, order>>

PairSpec == PairInit /\ [][PairNext]_vars

----------------------------------------------------------------------------
(* An announcer and sap_discovery.py on one network and one clock, with    *)
(* the reference settings and no loss: a packet sent is the next datagram  *)
(* the listener receives. Handling a datagram and sweeping take no time;   *)
(* time passes while the announcer and the sweeper both sleep. The         *)
(* listener has been running for some time when the announcer starts, and  *)
(* its files can be written. The loop of sap_sender.py sleeps ANN_MIN or   *)
(* ANN_MAX, the ends of the range of random.uniform.                       *)

\* the least and the greatest of a set of numbers
Ends(S) ==
    {x \in S : (\A y \in S : x <= y) \/ (\A y \in S : x >= y)}

LinkInit ==
    /\ seen = <<>> /\ files = NoFiles /\ listener = Idle
    /\ \E left \in 0..SweepSleep : sweeper = Asleep(left)
    /\ live = Zero /\ open = [i \in Ids |-> FALSE] /\ runWrites = Zero
    /\ codec = CodecIdle /\ receiver = ReceiverIdle /\ order = NoOrder
    /\ \/ announcer = AnnouncerStart("sap_sender", 0)
       \/ announcer = AnnouncerStart("sender", SapIntervalDefault)

\* sendto, and recvfrom at the listener
LinkSend ==
    /\ announcer.pc \in {"burst", "loop"}
    /\ announcer.k <= Sessions(announcer.prog)
    /\ announcer.n[announcer.k] < MaxTx
    /\ announcer' = Sent(announcer)
    /\ Recv({SessionPacket(announcer.prog, announcer.k)})
    /\ UNCHANGED <<codec, receiver, order>>

\* time.sleep(1) of the burst, time.sleep(...) of the loop: the sleep begins
LinkSleep ==
    /\ announcer.pc \in {"burst", "loop"}
    /\ announcer.k > Sessions(announcer.prog)
    /\ \E d \in IF announcer.pc = "burst" THEN {StartupSleep}
                ELSE Ends(LoopSleeps(announcer.prog, announcer.interval)) :
          announcer' = [announcer EXCEPT
              !.pc = IF @ = "burst" THEN "burst_sleep" ELSE "loop_sleep",
              !.wait = d]
    /\ DiscoveryRests /\ UNCHANGED <<codec, receiver, order>>

\* time passes up to the next wake-up, of the announcer or of the sweeper
LinkTime ==
    /\ announcer.pc \in {"burst_sleep", "loop_sleep"}
    /\ announcer.wait > 0
    /\ listener.pc = "recv"
    /\ sweeper.pc = "sleep" /\ sweeper.left > 0
    /\ LET step == Min(announcer.wait, sweeper.left)
       IN  /\ Tick(step)
           /\ announcer' = [Slept(announcer, step) EXCEPT !.wait = @ - step]
    /\ UNCHANGED <<codec, receiver, order>>

\* the sleep returns: the next round of the for loop, or the while loop
LinkWake ==
    /\ announcer.pc \in {"burst_sleep", "loop_sleep"}
    /\ announcer.wait = 0
    /\ announcer' = [announcer EXCEPT
           !.k = 1,
           !.i = IF announcer.pc = "burst_sleep" THEN @ + 1 ELSE @,
           !.pc = IF announcer.pc = "burst_sleep" /\ ~RangeDone(announcer.i + 1)
                  THEN "burst" ELSE "loop"]
    /\ DiscoveryRests /\ UNCHANGED <<codec, receiver, order>>

LinkNext ==
    \/ LinkSend
    \/ LinkSleep
    \/ LinkTime
    \/ LinkWake
    \/ Decode /\ UNCHANGED <<codec, announcer, receiver, order>>
    \/ Announce /\ UNCHANGED <<codec, announcer, receiver, order>>
    \/ Store /\ UNCHANGED <<codec, announcer, receiver, order>>
    \/ WriteOk /\ UNCHANGED <<codec, announcer, receiver, order>>
    \/ Scan /\ UNCHANGED <<codec, announcer, receiver, order>>
    \/ Sleep /\ UNCHANGED <<codec, announcer, receiver, order>>

LinkSpec == LinkInit /\ [][LinkNext]_vars

----------------------------------------------------------------------------
(* Claims about sap_discovery.py                                           *)

\* the listener is between the membership test and the end of the Announce
\* of id
Announcing(id) ==
    listener.pc \in {"store", "write"} /\ listener.msg_id = id

\* a thread has popped the record of id and not yet called unlink
Removing(id) ==
    (IF listener.pc = "unlink" /\ listener.msg_id = id THEN 1 ELSE 0)
    + (IF sweeper.pc = "unlink" /\ sweeper.mid = id THEN 1 ELSE 0)

\* a step of the main thread, of the sweeper thread
ListenerStep == listener' # listener
SweeperStep == sweeper'.pc # sweeper.pc \/ sweeper'.to_delete # sweeper.to_delete

\* C1: over the Announces of one id that start with the id absent and have
\* no removal of the id among them, the sink is written exactly once: by the
\* first Announce, and never again by a later one.
C1_OneWritePerRun ==
    \A id \in Ids :
        open[id] =>
            /\ runWrites[id] <= 1
            /\ runWrites[id] = 0 => Announcing(id)

\* C1 witness: a second Announce of IdA, with another document, has been
\* handled (the record holds its title "B") and the run still counts one write.
C1_Witness ==
    /\ listener.pc = "recv"
    /\ open[IdA] /\ runWrites[IdA] = 1
    /\ Has(seen, IdA) /\ Get(seen, IdA).title = <<66>>

\* C2: every record created has unlink called for it exactly once when it is
\* removed: the records created and not yet unlinked are the one in the dict
\* and those a thread has popped and is about to unlink, in every interleaving.
C2_RemoveOncePerRecord ==
    \A id \in Ids :
        live[id] = (IF Has(seen, id) THEN 1 ELSE 0) + Removing(id)

\* C2 witness: the listener has popped IdA for a Delete and the sweeper is
\* about to pop the same id as expired.
C2_Witness ==
    /\ listener.pc = "unlink" /\ listener.msg_id = IdA
    /\ sweeper.pc = "pop" /\ sweeper.to_delete # <<>>
    /\ Head(sweeper.to_delete) = IdA

\* C3 (as claimed): while a record stays in the dict, an Announce changes
\* nothing of it but last_seen: title, document and path stay as created.
C3_RefreshKeepsRecord ==
    [][\A id \in Ids :
          (Has(seen, id) /\ Has(seen', id)) =>
              /\ Get(seen', id).title = Get(seen, id).title
              /\ Get(seen', id).sdp = Get(seen, id).sdp
              /\ Get(seen', id).path = Get(seen, id).path]_vars

\* C4: the sweeper removes a record only if the scan of that sweep read
\* now - last_seen > expire_sec for it; at now - last_seen = expire_sec it
\* does not.
C4_OnlyExpiredEvicted ==
    [][\A id \in Ids :
          (SweeperStep /\ Has(seen, id) /\ ~Has(seen', id)) =>
              /\ sweeper'.pc = "unlink"
              /\ sweeper'.mid = id
              /\ sweeper'.age > expire_sec]_vars

\* C4 witness: a sweep has ended and left in the dict a record that is
\* exactly expire_sec old.
C4_Witness ==
    /\ sweeper.pc = "sleep" /\ sweeper.left = SweepSleep
    /\ Has(seen, IdA) /\ Get(seen, IdA).age = expire_sec

\* the record of id is in the dict and older than expire_sec
Stale(id) == Has(seen, id) /\ Get(seen, id).age > expire_sec

C6_DeleteAbsentNoOp ==
    [][(/\ ListenerStep
        /\ listener.pc = "dispatch" /\ listener.deletion = 1
        /\ ~Has(seen, listener.msg_id)) =>
            /\ seen' = seen /\ files' = files /\ live' = live
            /\ listener'.pc = "absent"]_vars

\* C6 witness: a Delete for IdA found no record; a file of IdA is there, so
\* a record of IdA was created and removed before.
C6_Witness ==
    /\ listener.pc = "absent" /\ listener.msg_id = IdA
    /\ ~Has(seen, IdA) /\ FileName(<<65>>) \in DOMAIN files

\* C7: a datagram shorter than 8 bytes changes neither the dict nor the
\* files, and the loop goes on: the listener is at the continue of line 60,
\* whose only step leads back to recvfrom.
C7_ShortDropped ==
    [][(ListenerStep /\ listener.pc = "len" /\ Len(listener.pkt) < 8) =>
            /\ seen' = seen /\ files' = files /\ live' = live
            /\ listener'.pc = "drop"]_vars

\* C7 witness: a 5-byte datagram has been dropped while the dict holds a
\* record.
C7_Witness ==
    /\ listener.pc = "drop" /\ Len(listener.pkt) = 5
    /\ seen # <<>>

\* authLength x 4 exceeds what follows the 8-byte fixed header
Truncated(pkt) ==
    Len(pkt) >= 8 /\ pkt[2] * 4 > Len(pkt) - 8

\* C8 (as claimed): a datagram whose authentication data runs past its end
\* is dropped: handling it changes neither the dict nor the files.
C8_TruncatedDropped ==
    [][(ListenerStep /\ listener.pc # "recv" /\ Truncated(listener.pkt)) =>
            seen' = seen /\ files' = files]_vars

----------------------------------------------------------------------------
(* Claims about the codec                                                  *)

\* text with no leading and no trailing whitespace
Trimmed(s) == s = <<>> \/ (~IsSpace(s[1]) /\ ~IsSpace(s[Len(s)]))

\* s is t without a whitespace prefix and a whitespace suffix
IsStripOf(s, t) ==
    /\ Trimmed(s)
    /\ \E i \in 0..Len(t) :
          /\ \A k \in 1..i : IsSpace(t[k])
          /\ \A k \in (i + Len(s) + 1)..Len(t) : IsSpace(t[k])
          /\ i + Len(s) <= Len(t)
          /\ s = SubSeq(t, i + 1, i + Len(s))

\* the text of bytes p: ASCII as it is, a byte of no UTF-8 text as U+FFFD
TextOf(p) == [i \in 1..Len(p) |-> IF p[i] = 255 THEN 65533 ELSE p[i]]

----------------------------------------------------------------------------
(* Claims about the announcers                                             *)

\* the configured announce range
AnnounceRange ==
    IF announcer.prog = "sap_sender" THEN ANN_MIN..ANN_MAX
    ELSE {announcer.interval}

\* C10 (as claimed): the second and third transmissions of a session come 1
\* second after the one before, and every gap from the third transmission on
\* is within the announce range and is not the 1-second startup interval.
C10_GapsAfterThird ==
    \A s \in DOMAIN announcer.n :
        /\ announcer.n[s] \in 2..3 => announcer.gap[s] = StartupSleep
        /\ announcer.n[s] >= 4 =>
               /\ announcer.gap[s] \in AnnounceRange
               /\ announcer.gap[s] # StartupSleep

\* C10 (amended): the second, third and fourth transmissions of a session
\* come 1 second after the one before, and every gap from the fourth
\* transmission on is within the announce range; it is not the 1-second
\* startup interval unless --sap-interval is 1.
C10_GapsAfterFourth ==
    \A s \in DOMAIN announcer.n :
        /\ announcer.n[s] \in 2..4 => announcer.gap[s] = StartupSleep
        /\ announcer.n[s] >= 5 =>
               /\ announcer.gap[s] \in AnnounceRange
               /\ (announcer.prog = "sap_sender"
                   \/ announcer.interval # StartupSleep) =>
                      announcer.gap[s] # StartupSleep

\* C10 witness: sap_sender.py has sent its second session a fifth time,
\* ANN_MAX seconds after the fourth.
C10_Witness ==
    /\ announcer.prog = "sap_sender"
    /\ announcer.n[2] = 5 /\ announcer.gap[2] = ANN_MAX

\* C11: when the announcer has exited on SIGINT or SIGTERM, it has sent
\* exactly one Delete packet (T = 1) for each session it announced.
C11_DeleteSentOnExit ==
    announcer.pc = "exited" =>
        \A s \in DOMAIN announcer.deletes : announcer.deletes[s] = 1

----------------------------------------------------------------------------
(* Further claims about sap_discovery.py                                   *)

\* C12: a failure of open() or write() while the first Announce of an id is
\* handled leaves the listener in its loop: after the write step, failed or
\* not, the listener is back at recvfrom.
C12_WriteFailureRecovered ==
    [][(ListenerStep /\ listener.pc = "write") => listener'.pc = "recv"]_vars

\* C13: the sweeper removes no record whose now - last_seen, at the moment it
\* is popped, is within expire_sec: an Announce stored before the pop is not
\* discarded by it.
C13_NoRefreshLostToSweep ==
    [][\A id \in Ids :
          (SweeperStep /\ Has(seen, id) /\ ~Has(seen', id)) =>
              Get(seen, id).age > expire_sec]_vars

\* C14: Announce and Delete packets of an id are applied in the order
\* received: between two datagrams, with no expiry, the record of an id is in
\* the dict exactly when the last packet of the id was an Announce, and after
\* a Delete followed by an Announce the record is that of the Announce, made
\* anew with one write of its file.
C14_AppliedInReceiptOrder ==
    listener.pc = "recv" =>
        \A id \in Ids :
            /\ Has(seen, id) <=>
                   (order[id] # <<>> /\ order[id][Len(order[id])] = 0)
            /\ order[id] = <<1, 0>> =>
                   /\ open[id] /\ runWrites[id] = 1
                   /\ Get(seen, id).path \in DOMAIN files
                   /\ files[Get(seen, id).path] = Get(seen, id).sdp \o Newline

\* C14 witness: IdA was deleted and then announced with the title "B"; its
\* record is there and B.sdp is written.
C14_Witness ==
    /\ listener.pc = "recv"
    /\ order[IdA] = <<1, 0>>
    /\ Has(seen, IdA) /\ Get(seen, IdA).title = <<66>>
    /\ FileName(<<66>>) \in DOMAIN files

\* C15: sessions are keyed by the id alone. The key of a datagram is its
\* bytes 2-3 whatever its address, the dict holds one record for an id, an
\* Announce of an id that has a record is a refresh without a write whatever
\* its address and document, and a Delete of the id from any address leaves
\* no record of it.
C15_KeyedByIdAlone ==
    /\ [](/\ listener.pc \in {"dispatch", "store", "write", "unlink", "absent"}
             => listener.msg_id = WireId(listener.pkt)
          /\ \A i, j \in 1..Len(seen) : seen[i].mid = seen[j].mid => i = j
          /\ (listener.pc = "store" /\ Has(seen, WireId(listener.pkt)))
             => ~listener.first_time)
    /\ [][(/\ ListenerStep /\ listener.pc = "store"
           /\ Has(seen, WireId(listener.pkt))) =>
              /\ listener'.pc = "recv" /\ files' = files
              /\ Len(seen') = Len(seen)]_vars
    /\ [][(/\ ListenerStep /\ listener.pc = "dispatch"
           /\ WireT(listener.pkt) = 1) =>
              ~Has(seen', WireId(listener.pkt))]_vars

\* C15 witness: IdA, created with the title "A" by the Announce from AddrA and
\* refreshed by the Announce from AddrB, is removed by a Delete from AddrB;
\* B.sdp was never written.
C15_Witness ==
    /\ listener.pc = "unlink"
    /\ listener.pkt = DeleteHeader(IdA, AddrB)
    /\ listener.info[1].title = <<66>>
    /\ DOMAIN files = {FileName(<<65>>)}
    /\ ~Has(seen, IdA)

\* C16: an unlink that raises keeps no record in the dict and ends no loop.
\* The record is out of the dict before unlink is called, the unlink step
\* leaves the dict as it is whether it raised or not, and after it the
\* listener is back at recvfrom and the sweeper at its next id.
C16_UnlinkFailureDropsRecord ==
    /\ [](listener.pc = "unlink" => ~Has(seen, listener.msg_id))
    /\ [][\A id \in Ids :
            (SweeperStep /\ sweeper'.pc = "unlink" /\ sweeper'.mid = id) =>
                ~Has(seen', id)]_vars
    /\ [][(ListenerStep /\ listener.pc = "unlink") =>
            /\ seen' = seen /\ ~Has(seen', listener.msg_id)
            /\ listener'.pc = "recv"]_vars
    /\ [][(SweeperStep /\ sweeper.pc = "unlink") =>
            /\ seen' = seen
            /\ sweeper'.pc = "pop"]_vars

\* C16 witness: the sweeper has evicted IdB and called unlink for each of its
\* records, session_513.sdp is still there, so an unlink raised; no record of
\* IdB is in the dict and both loops go on.
C16_Witness ==
    /\ sweeper.pc = "pop" /\ sweeper.mid = IdB
    /\ listener.pc = "recv"
    /\ live[IdB] = 0 /\ ~Has(seen, IdB)
    /\ FileName(SessionPrefix \o Decimal(IdB)) \in DOMAIN files

\* C17: between two datagrams, every record in the dict has its file: the
\* file was written for the record when it was created and no removal of the
\* id has unlinked it since, in every interleaving of listener and sweeper.
C17_RecordHasFile ==
    listener.pc = "recv" =>
        \A id \in Ids :
            Has(seen, id) => (open[id] /\ runWrites[id] = 1)

\* C18: no two records in the dict at the same time have the same file path,
\* whatever the titles of their Announces.
C18_PathsDiffer ==
    \A i, j \in 1..Len(seen) :
        seen[i].info.path = seen[j].info.path => i = j

----------------------------------------------------------------------------
(* Claims about the two receivers                                          *)

\* C20: on the same datagrams, with no expiry, sap_receiver.py and
\* sap_discovery.py hold the same ids after each datagram and make the same
\* writes: for each datagram either both write, the same file name with the
\* same content, or neither does. What sap_discovery.py has on disk is what
\* sap_receiver.py has, less the files it unlinked on Delete.
C20_ReceiversAgree ==
    /\ [](listener.pc = "recv" =>
             /\ Keys(seen) = Keys(receiver.seen)
             /\ \A q \in DOMAIN files :
                    q \in DOMAIN receiver.files /\ files[q] = receiver.files[q])
    /\ [](listener.pc = "write" =>
             receiver.wrote = <<[path |-> listener.fpath,
                                  content |-> listener.sdp \o Newline]>>)
    /\ [](listener.pc \in {"drop", "unlink", "absent"} => receiver.wrote = <<>>)
    /\ [][(ListenerStep /\ listener.pc = "store" /\ listener'.pc = "recv") =>
             receiver.wrote = <<>>]_vars

\* C20 witness: both programs hold IdA and IdB; sap_receiver.py has written
\* A.sdp, B.sdp and session_513.sdp, and sap_discovery.py is left without
\* A.sdp after a Delete.
C20_Witness ==
    /\ listener.pc = "recv"
    /\ Keys(seen) = {IdA, IdB} /\ Keys(receiver.seen) = {IdA, IdB}
    /\ DOMAIN receiver.files =
           {FileName(<<65>>), FileName(<<66>>),
            FileName(SessionPrefix \o Decimal(IdB))}
    /\ DOMAIN files =
           {FileName(<<66>>), FileName(SessionPrefix \o Decimal(IdB))}

----------------------------------------------------------------------------
(* Claims about an announcer and the listener together                     *)

\* the listener has handled an Announce of the session k
Handled(k) ==
    \/ announcer.n[k] >= 2
    \/ /\ announcer.n[k] = 1
       /\ \/ listener.pc = "recv"
          \/ WireId(listener.pkt) # Sha1Prefix(SessionSdp(announcer.prog, k))

\* C19: with expire_sec 300, a sweep every 30 s, announce gaps of at most
\* ANN_MAX (sap_sender.py) or 20 s (sender.py) and no loss, a session that is
\* being announced is never expired: once the listener has handled its first
\* Announce its record stays in the dict with now - last_seen within
\* expire_sec, its file stays written, and no sweep lists anything to evict.
C19_AnnouncedNeverExpires ==
    /\ sweeper.to_delete = <<>>
    /\ \A k \in DOMAIN announcer.n :
          Handled(k) =>
              LET id == Sha1Prefix(SessionSdp(announcer.prog, k))
              IN  /\ Has(seen, id)
                  /\ Get(seen, id).age <= ANN_MAX
                  /\ Get(seen, id).path \in DOMAIN files
                  /\ files[Get(seen, id).path] = Get(seen, id).sdp \o Newline

\* C19 witness: sap_sender.py has slept ANN_MAX after its fifth round, the
\* sweeper has just scanned, and the record of the second session is there,
\* ANN_MAX old.
C19_Witness ==
    /\ announcer.prog = "sap_sender"
    /\ announcer.n[2] = 5 /\ announcer.since[2] = ANN_MAX
    /\ sweeper.pc = "pop"
    /\ Has(seen, IdFeedB) /\ Get(seen, IdFeedB).age = ANN_MAX
    /\ FileName(Get(seen, IdFeedB).title) \in DOMAIN files

====
